---- MODULE Spec2Model ----
(***************************************************************************)
(* QuickJS C++ wrapper (src/QuickJSWrapper.h): JSContext's host operations *)
(* (eval and its typed variants, setGlobal, getGlobalAsString,             *)
(* callFunction, evalFile, registerFunction, registerSimpleFunction,       *)
(* setConsoleLog) over an abstract interpreter context, and the lifecycle  *)
(* of the JSRuntime, JSContext and JSEngine objects that own the           *)
(* interpreter's runtime and context handles.                              *)
(*                                                                         *)
(* Host strings (std::string) are sequences of characters and may hold the *)
(* NUL character; a C string (c_str(), the result of JS_ToCString) ends at *)
(* its first NUL.  Script values are records [t, s, n]: tag, string        *)
(* payload, integer payload.                                               *)
(***************************************************************************)
EXTENDS Integers, Sequences, FiniteSets, TLC

VARIABLES
    globals,   \* the context's global object: C-string name -> script value
    heap,      \* host allocations made by the registration operations (new ...)
    opaque,    \* the context's single opaque slot: 0 (nullptr) or an index into heap
    pending,   \* the runtime's pending exception value (JS_GetException takes it)
    crashed,   \* the process was killed by undefined behaviour
    last,      \* the last host operation: its inputs, outcome and the closures it invoked
    rts,       \* the interpreter's runtime handles: created, freed how often
    ctxs,      \* the interpreter's context handles: created on which runtime, freed how often
    robjs,     \* the host's JSRuntime objects: lifetime and m_runtime
    cobjs      \* the host's JSContext objects: lifetime, m_context and m_runtime

\* the lifecycle part of the state
lifeVars == <<rts, ctxs, robjs, cobjs>>

vars == <<globals, heap, opaque, pending, crashed, last, rts, ctxs, robjs, cobjs>>

-----------------------------------------------------------------------------
(* Bounds of the model. *)

\* the registration operations (each one allocates) a run may perform
MaxRegs == 2

-----------------------------------------------------------------------------
(* Host strings and C strings. *)

NUL == "\\0"

RECURSIVE CStr(_)
\* std::string::c_str() read as a C string, and std::string(const char*):
\* the characters before the first NUL.
CStr(s) ==
    IF s = <<>> \/ Head(s) = NUL THEN <<>> ELSE <<Head(s)>> \o CStr(Tail(s))

\* a null const char* (JS_ToCString failed)
NullPtr == <<"nullptr">>

\* `str ? str : dflt` followed by std::string construction from the C string
OrDefault(str, dflt) == IF str = NullPtr THEN dflt ELSE CStr(str)

-----------------------------------------------------------------------------
(* Script values. *)

Val(t, s, n) == [t |-> t, s |-> s, n |-> n]

Absent      == Val("absent", <<>>, 0)      \* no such property
Undefined   == Val("undefined", <<>>, 0)   \* JS_UNDEFINED
Uninit      == Val("uninitialized", <<>>, 0) \* JS_UNINITIALIZED: no exception is pending
JSSymbol    == Val("symbol", <<>>, 0)      \* a value with no string form
JSString(s) == Val("string", s, 0)         \* JS_NewString / JS_NewStringLen
JSInt(n)    == Val("int", <<>>, n)         \* JS_NewInt32
JSFloat(d)  == Val("float64", <<>>, d)     \* JS_NewFloat64; d counts tenths
JSBool(b)   == Val("bool", <<>>, IF b THEN 1 ELSE 0)  \* JS_NewBool
JSError(cls, msg) == Val("error", <<cls, ": ">> \o msg, 0)  \* an Error object
ScriptFun(b) == Val("sfun", <<b>>, 0)      \* a function defined by script code
CFun(k, h)  == Val("cfun", <<k>>, h)       \* JS_NewCFunction(wrapper of kind k); h is
                                           \* the allocation made by the same registration
                                           \* (the trampolines never read it)
ConsoleObj(lg) == Val("object", <<lg.t>> \o lg.s, lg.n)  \* { log: lg }

\* the log property of a console object
LogOf(o) == Val(o.s[1], Tail(o.s), o.n)

\* JS_IsFunction
JS_IsFunction(v) == v.t \in {"sfun", "cfun"}

\* JS_IsException: the JS_EXCEPTION marker
JSException == Val("exception", <<>>, 0)

\* the interpreter's string form of a value (ToString)
StrForm(v) ==
    CASE v.t = "string"    -> v.s
      [] v.t = "int"       -> <<ToString(v.n)>>
      [] v.t = "float64"   -> IF v.n % 10 = 0 THEN <<ToString(v.n \div 10)>>
                              ELSE <<ToString(v.n \div 10), ".", ToString(v.n % 10)>>
      [] v.t = "bool"      -> IF v.n = 1 THEN <<"true">> ELSE <<"false">>
      [] v.t = "error"     -> v.s
      [] v.t = "sfun"      -> <<"function(){", v.s[1], "}">>
      [] v.t = "cfun"      -> <<"function(){[native code]}">>
      [] v.t = "object"    -> <<"[object Object]">>
      [] v.t = "uninitialized" -> <<"[unsupported type]">>
      [] OTHER             -> <<"undefined">>

\* JS_ToCString fails (returns NULL and throws a TypeError) on a value with no
\* string form
HasStrForm(v) == v.t # "symbol"

ConvError == JSError("TypeError", <<"cannot convert symbol to string">>)

\* JS_ToCString: the C string of the value's string form, or a null pointer
JS_ToCString(v) == IF HasStrForm(v) THEN StrForm(v) ELSE NullPtr

\* the pending exception after JS_ToCString(v), JS_ToInt32(v) or JS_ToFloat64(v)
PendingAfterConv(v, pend) == IF HasStrForm(v) THEN pend ELSE ConvError

-----------------------------------------------------------------------------
(* Host closures and the trampolines of the function bridge. *)

\* One heap allocation of a registration operation: its C++ type (kind) and how
\* the closure it holds behaves when called:
\*   "ret"   returns normally,
\*   "std"   throws an exception derived from std::exception,
\*   "other" throws something else (throw 42).
Alloc(k, b) == [kind |-> k, beh |-> b]

\* the string the closure held by allocation h returns
RetStr(h) == <<"ret", ToString(h)>>

\* e.what() of the std::exception the closure held by allocation h throws
WhatStr(h) == <<"what", ToString(h)>>

\* One invocation of a host closure or of a script function:
\*   h     the allocation whose closure ran (0: a script function),
\*   via   the trampoline that called it ("script" for a script function),
\*   recv  the call receiver as the callee sees it,
\*   args  the arguments as the callee sees them (strings),
\*   fault what the closure raised, caught: whether the trampoline caught it.
Invocation(h, via, recv, args, fault, caught) ==
    [h |-> h, via |-> via, recv |-> recv, args |-> args, fault |-> fault, caught |-> caught]

\* The outcome of a call into the interpreter or into a trampoline:
\*   st    "value" (v is the result), "exception" (JS_EXCEPTION; the thrown value,
\*         if any, is pend), "foreign" (a C++ exception is unwinding through the
\*         interpreter's frames), "crash" (the process died),
\*   G     the global object afterwards, pend the pending exception afterwards,
\*   calls the invocations made, in order,
\*   regs  the allocations of the registrations a closure made while it ran,
\*   held  the interpreter handles a trampoline obtained and did not release.
Res(st, v, G, pend, calls) ==
    [st |-> st, v |-> v, G |-> G, pend |-> pend, calls |-> calls, regs |-> <<>>, held |-> 0]

RECURSIVE ConvertArgs(_)
\* registerFunction's wrapper, "Convert arguments": each argv[i] through
\* JS_ToCString, appended only `if (str)`.
ConvertArgs(argv) ==
    IF argv = <<>> THEN <<>>
    ELSE LET str == JS_ToCString(Head(argv))
         IN  (IF str # NullPtr THEN <<CStr(str)>> ELSE <<>>) \o ConvertArgs(Tail(argv))

RECURSIVE PendingAfterArgs(_, _)
\* the pending exception after the argument conversions
PendingAfterArgs(argv, pend) ==
    IF argv = <<>> THEN pend
    ELSE PendingAfterArgs(Tail(argv), PendingAfterConv(Head(argv), pend))

\* JS_ThrowInternalError(ctx, "%s", what)
InternalError(what) == JSError("InternalError", CStr(what))

\* `try { result = closure(args); return JS_NewString(ctx, result.c_str()); }
\*  catch (const std::exception& e) { return JS_ThrowInternalError(...); }`
\* applied to the closure of allocation h: only std::exception is caught.
TryCall(h, b, via, args, G, pend) ==
    CASE b = "ret" ->
           Res("value", JSString(CStr(RetStr(h))), G, pend,
               <<Invocation(h, via, "none", args, "none", FALSE)>>)
      [] b = "std" ->
           Res("exception", JSException, G, InternalError(WhatStr(h)),
               <<Invocation(h, via, "none", args, "std", TRUE)>>)
      [] OTHER ->
           Res("foreign", JSException, G, pend,
               <<Invocation(h, via, "none", args, "other", FALSE)>>)

\* The call through a pointer static_cast to the wrong type (the slot holds an
\* allocation of another kind): undefined behaviour.  The build either dies or
\* runs the closure the slot holds, with arguments that are not the caller's.
Garbage == <<"garbage">>

MiscastCall(h, H, via, G, pend) ==
    {Res("crash", JSException, G, pend, <<>>)} \cup
    (IF via = "log"
     THEN {IF H[h].beh = "ret"
           THEN Res("value", Undefined, G, pend,
                    <<Invocation(h, via, "none", <<Garbage>>, "none", FALSE)>>)
           ELSE [Res("foreign", JSException, G, pend,
                     <<Invocation(h, via, "none", <<Garbage>>, H[h].beh, FALSE)>>)
                 EXCEPT !.held = 1]}
     ELSE {TryCall(h, H[h].beh, via, <<Garbage>>, G, pend)})

\* Closures that call back into the context they were registered in before
\* they return:
\*   "get"   getGlobalAsString(NestedName),
\*   "set"   setGlobal(NestedName, 5),
\*   "eval"  eval(NestedCode),
\*   "reg"   registerFunction(NestedName, a closure that returns).
NestedBehs == {"get", "set", "eval", "reg"}

RECURSIVE NestedCall(_, _, _, _, _, _, _)

\* registerFunction's wrapper: the closure is whatever the opaque slot holds.
WrapperFn(argv, G, H, opq, pend) ==
    IF opq = 0 THEN {Res("exception", JSException, G, pend, <<>>)}
    ELSE LET args == ConvertArgs(argv)
             p2   == PendingAfterArgs(argv, pend)
         IN  IF H[opq].kind = "fn"
             THEN IF H[opq].beh \in NestedBehs
                  THEN NestedCall(opq, H[opq].beh, args, G, H, opq, p2)
                  ELSE {TryCall(opq, H[opq].beh, "fn", args, G, p2)}
             ELSE MiscastCall(opq, H, "fn", G, p2)

\* registerSimpleFunction's wrapper: reads the opaque slot as a FuncWrapper.
WrapperSimple(argv, G, H, opq, pend) ==
    IF opq = 0 THEN {Res("exception", JSException, G, pend, <<>>)}
    ELSE IF H[opq].kind = "simple"
         THEN {TryCall(opq, H[opq].beh, "simple", <<>>, G, pend)}
         ELSE MiscastCall(opq, H, "simple", G, pend)

\* setConsoleLog's wrapper: forwards argv[0] to the callback in the opaque slot;
\* no try/catch around the callback, so when the callback throws the C string
\* of argv[0] is not released (JS_FreeCString is skipped).
WrapperLog(argv, G, H, opq, pend) ==
    IF opq # 0 /\ Len(argv) > 0
    THEN LET str == JS_ToCString(argv[1])
             p2  == PendingAfterConv(argv[1], pend)
         IN  IF str = NullPtr THEN {Res("value", Undefined, G, p2, <<>>)}
             ELSE IF H[opq].kind = "log"
                  THEN {IF H[opq].beh = "ret"
                        THEN Res("value", Undefined, G, p2,
                                 <<Invocation(opq, "log", "none", <<CStr(str)>>, "none", FALSE)>>)
                        ELSE [Res("foreign", JSException, G, p2,
                                  <<Invocation(opq, "log", "none", <<CStr(str)>>, H[opq].beh, FALSE)>>)
                                 EXCEPT !.held = 1]}
                  ELSE MiscastCall(opq, H, "log", G, p2)
    ELSE {Res("value", Undefined, G, pend, <<>>)}

-----------------------------------------------------------------------------
(* The interpreter: programs, calls, JS_Eval and JS_Call. *)

\* the names of global bindings the host and the programs use
Names == {<<"f">>, <<"g">>}

ConsoleName == <<"console">>

GlobalNames == Names \cup {ConsoleName}

\* literal expressions of the programs and their values
Literals == {"'a'", "1+2", "1.5", "true", "Symbol()"}

LitVal(tok) ==
    CASE tok = "'a'"  -> JSString(<<"a">>)
      [] tok = "1+2"  -> JSInt(3)
      [] tok = "1.5"  -> JSFloat(15)
      [] tok = "true" -> JSBool(TRUE)
      [] OTHER        -> JSSymbol

\* argument lists of the programs and their values
ArgLists == {"()", "('a')", "('a','b')", "(Symbol(),'b')"}

ArgVals(tok) ==
    CASE tok = "()"        -> <<>>
      [] tok = "('a')"     -> <<JSString(<<"a">>)>>
      [] tok = "('a','b')" -> <<JSString(<<"a">>), JSString(<<"b">>)>>
      [] OTHER             -> <<JSSymbol, JSString(<<"b">>)>>

\* bodies of the functions the programs declare
FunBodies == {"{return x}", "{throw x}"}

Script(k, name, args) == [k |-> k, name |-> name, args |-> args]

\* The parser, over the whole source text (JS_Eval is given its length): a text
\* that is none of the programs below, a text holding NUL included, is a
\* syntax error.
Parse(code) ==
    CASE code = <<>>                                  -> Script("lit", <<>>, <<Undefined>>)
      [] Len(code) = 1 /\ code \in Names              -> Script("ident", code, <<>>)
      [] Len(code) = 1 /\ code[1] \in Literals        -> Script("lit", <<>>, <<LitVal(code[1])>>)
      [] Len(code) = 2 /\ <<code[1]>> \in Names /\ code[2] \in ArgLists
                                                      -> Script("call", <<code[1]>>, ArgVals(code[2]))
      [] Len(code) = 2 /\ code[1] = "console.log" /\ code[2] \in ArgLists
                                                      -> Script("log", ConsoleName, ArgVals(code[2]))
      [] Len(code) = 2 /\ code[1] = "throw " /\ code[2] \in Literals
                                                      -> Script("throw", <<>>, <<LitVal(code[2])>>)
      [] Len(code) = 3 /\ code[1] = "function " /\ <<code[2]>> \in Names /\ code[3] \in FunBodies
                                                      -> Script("defun", <<code[2]>>, <<ScriptFun(code[3])>>)
      [] Len(code) = 3 /\ code[1] = "try{" /\ <<code[2]>> \in Names /\ code[3] = "()}catch(e){e}"
                                                      -> Script("trycall", <<code[2]>>, <<>>)
      [] code = <<"var console = { log: function() {} };">>
                                                      -> Script("console", ConsoleName, <<>>)
      [] OTHER                                        -> Script("syntax", <<>>, <<>>)

RECURSIVE StrForms(_)
\* the arguments as a script function sees them, by their string forms
StrForms(argv) ==
    IF argv = <<>> THEN <<>> ELSE <<StrForm(Head(argv))>> \o StrForms(Tail(argv))

FirstOr(argv, dflt) == IF argv = <<>> THEN dflt ELSE argv[1]

NotAFunction == JSError("TypeError", <<"not a function">>)

\* Calling the value fv with receiver recv and arguments argv.
CallValue(fv, recv, argv, G, H, opq, pend) ==
    CASE fv.t = "sfun" ->
           LET inv == <<Invocation(0, "script", recv, StrForms(argv), "none", FALSE)>>
           IN  IF fv.s[1] = "{throw x}"
               THEN {Res("exception", JSException, G, FirstOr(argv, Undefined), inv)}
               ELSE {Res("value", FirstOr(argv, Undefined), G, pend, inv)}
      [] fv.t = "cfun" /\ fv.s[1] = "fn"     -> WrapperFn(argv, G, H, opq, pend)
      [] fv.t = "cfun" /\ fv.s[1] = "simple" -> WrapperSimple(argv, G, H, opq, pend)
      [] fv.t = "cfun" /\ fv.s[1] = "log"    -> WrapperLog(argv, G, H, opq, pend)
      [] OTHER -> {Res("exception", JSException, G, NotAFunction, <<>>)}

\* JS_Eval(ctx, code.c_str(), code.length(), filename, JS_EVAL_TYPE_GLOBAL):
\* the outcomes of running the program.
JS_Eval(code, G, H, opq, pend) ==
    LET sc == Parse(code)
    IN  CASE sc.k = "lit"   -> {Res("value", sc.args[1], G, pend, <<>>)}
          [] sc.k = "ident" ->
               IF G[sc.name] = Absent
               THEN {Res("exception", JSException, G,
                         JSError("ReferenceError", sc.name \o <<" is not defined">>), <<>>)}
               ELSE {Res("value", G[sc.name], G, pend, <<>>)}
          [] sc.k = "throw" -> {Res("exception", JSException, G, sc.args[1], <<>>)}
          [] sc.k = "defun" ->
               {Res("value", Undefined, [G EXCEPT ![sc.name] = sc.args[1]], pend, <<>>)}
          [] sc.k = "console" ->
               {Res("value", Undefined,
                    [G EXCEPT ![ConsoleName] = ConsoleObj(ScriptFun("{}"))], pend, <<>>)}
          [] sc.k = "call"  ->
               IF G[sc.name] = Absent
               THEN {Res("exception", JSException, G,
                         JSError("ReferenceError", sc.name \o <<" is not defined">>), <<>>)}
               ELSE CallValue(G[sc.name], "undefined", sc.args, G, H, opq, pend)
          [] sc.k = "trycall" ->
               IF G[sc.name] = Absent
               THEN {Res("value", JSError("ReferenceError", sc.name \o <<" is not defined">>),
                         G, pend, <<>>)}
               ELSE {IF r.st = "exception"
                     THEN [r EXCEPT !.st = "value", !.v = r.pend, !.pend = Uninit] ELSE r :
                     r \in CallValue(G[sc.name], "undefined", <<>>, G, H, opq, pend)}
          [] sc.k = "log"   ->
               IF G[ConsoleName] = Absent
               THEN {Res("exception", JSException, G,
                         JSError("ReferenceError", ConsoleName \o <<" is not defined">>), <<>>)}
               ELSE IF G[ConsoleName].t # "object"
                    THEN {Res("exception", JSException, G, NotAFunction, <<>>)}
                    ELSE CallValue(LogOf(G[ConsoleName]), "console", sc.args, G, H, opq, pend)
          [] OTHER -> {Res("exception", JSException, G,
                           JSError("SyntaxError", <<"unexpected token">>), <<>>)}

\* JS_Call(ctx, func, global, argc, argv) with string arguments
JS_Call(fv, argv, G, H, opq, pend) == CallValue(fv, "global", argv, G, H, opq, pend)

-----------------------------------------------------------------------------
(* Lifecycle: the wrapper objects and the interpreter handles they own. *)

\* the host's objects: JSRuntime objects, JSContext objects, and JSEngine
\* objects, each holding a JSRuntime (m_runtime) and a JSContext (m_context)
RtObjs == {"r1", "r2"}

CtxObjs == {"c1", "c2"}

Engines == {"e1", "e2"}

\* every JSRuntime object and every JSContext object, members of engines included
AllRt == RtObjs \cup Engines

AllCtx == CtxObjs \cup Engines

\* handles JS_NewRuntime and JS_NewContext return: one per construction
RtIds == 1..Cardinality(AllRt)

CtxIds == 1..Cardinality(AllCtx)

\* nullptr
NullHandle == 0

\* a JSRuntime object: its lifetime ("unborn", "alive", "dead") and m_runtime
RtObject(st, h) == [st |-> st, m_runtime |-> h]

\* a JSContext object: its lifetime, m_context and the JSRuntime object its
\* reference member m_runtime is bound to
CtxObject(st, h, r) == [st |-> st, m_context |-> h, m_runtime |-> r]

\* a runtime handle: whether JS_NewRuntime returned it, how often JS_FreeRuntime
\* was called on it, its memory limit (0: none set), and whether it was freed
\* while a context created on it was not yet freed (early)
RtHandle(made, frees, limit) == [made |-> made, frees |-> frees, limit |-> limit, early |-> FALSE]

\* a context handle: whether JS_NewContext returned it, how often JS_FreeContext
\* was called on it, and the runtime handle it was created on
CtxHandle(made, frees, rt) == [made |-> made, frees |-> frees, rt |-> rt]

\* The lifecycle state as one value:
\*   ub   an operation with undefined behaviour was executed (a second free, a
\*        free of a runtime that still has contexts, a use of a freed handle),
\*   nul  a null handle was passed to the interpreter.
LifeState(R, C, RO, CO, ub, nul) ==
    [rts |-> R, ctxs |-> C, robjs |-> RO, cobjs |-> CO, ub |-> ub, nul |-> nul]

\* before any construction
LifeEmpty ==
    LifeState([h \in RtIds |-> RtHandle(FALSE, 0, 0)],
              [h \in CtxIds |-> CtxHandle(FALSE, 0, NullHandle)],
              [o \in AllRt |-> RtObject("unborn", NullHandle)],
              [o \in AllCtx |-> CtxObject("unborn", NullHandle, "none")],
              FALSE, FALSE)

\* the context handle h has not been freed, nor has the runtime it lives on
CtxUsable(L, h) == L.ctxs[h].made /\ L.ctxs[h].frees = 0 /\ L.rts[L.ctxs[h].rt].frees = 0

\* some context created on runtime handle h has not been freed
HasLiveContext(L, h) == \E c \in CtxIds : L.ctxs[c].made /\ L.ctxs[c].rt = h /\ L.ctxs[c].frees = 0

\* the handle the next JS_NewRuntime / JS_NewContext returns
FreshRt(L) == CHOOSE h \in RtIds : ~L.rts[h].made /\ \A k \in RtIds : k < h => L.rts[k].made

FreshCtx(L) == CHOOSE h \in CtxIds : ~L.ctxs[h].made /\ \A k \in CtxIds : k < h => L.ctxs[k].made

\* JS_FreeRuntime(h)
JS_FreeRuntime(L, h) ==
    [L EXCEPT !.rts[h].frees = IF @ < 2 THEN @ + 1 ELSE @,
              !.rts[h].early = @ \/ HasLiveContext(L, h),
              !.ub = @ \/ L.rts[h].frees > 0 \/ HasLiveContext(L, h)]

\* JS_FreeContext(h)
JS_FreeContext(L, h) ==
    [L EXCEPT !.ctxs[h].frees = IF @ < 2 THEN @ + 1 ELSE @,
              !.ub = @ \/ ~CtxUsable(L, h)]

\* what a move leaves in the source's handle member, `other.m_runtime = nullptr`
\* without the assignment
MovedFrom_Kept(h) == h

\* what a move leaves in the source's handle member: `other.m_runtime = nullptr`,
\* `other.m_context = nullptr`
MovedFrom(h) == NullHandle

\* JSRuntime::JSRuntime()
RuntimeCtor(L, o) ==
    LET h == FreshRt(L)
    IN  [L EXCEPT !.rts[h] = RtHandle(TRUE, 0, 0), !.robjs[o] = RtObject("alive", h)]

\* JSRuntime::~JSRuntime()
RuntimeDtor(L, o) ==
    LET h  == L.robjs[o].m_runtime
        L1 == IF h # NullHandle THEN JS_FreeRuntime(L, h) ELSE L
    IN  [L1 EXCEPT !.robjs[o].st = "dead"]

\* JSRuntime::JSRuntime(JSRuntime&& other)
RuntimeMoveCtor(L, o, other) ==
    LET h == L.robjs[other].m_runtime
    IN  [L EXCEPT !.robjs[o] = RtObject("alive", h),
                  !.robjs[other].m_runtime = MovedFrom(h)]

\* JSRuntime& JSRuntime::operator=(JSRuntime&& other)
RuntimeMoveAssign(L, o, other) ==
    IF o # other
    THEN LET own == L.robjs[o].m_runtime
             h   == L.robjs[other].m_runtime
             L1  == IF own # NullHandle THEN JS_FreeRuntime(L, own) ELSE L
         IN  [L1 EXCEPT !.robjs[o].m_runtime = h,
                        !.robjs[other].m_runtime = MovedFrom(h)]
    ELSE L

\* JSContext::JSContext(JSRuntime& runtime): JS_NewContext(runtime.get())
ContextCtor(L, o, runtime) ==
    LET rt == L.robjs[runtime].m_runtime
        h  == FreshCtx(L)
    IN  IF rt = NullHandle THEN [L EXCEPT !.nul = TRUE]
        ELSE [L EXCEPT !.ctxs[h] = CtxHandle(TRUE, 0, rt),
                       !.cobjs[o] = CtxObject("alive", h, runtime),
                       !.ub = @ \/ L.rts[rt].frees > 0]

\* JSContext::~JSContext()
ContextDtor(L, o) ==
    LET h  == L.cobjs[o].m_context
        L1 == IF h # NullHandle THEN JS_FreeContext(L, h) ELSE L
    IN  [L1 EXCEPT !.cobjs[o].st = "dead"]

\* JSContext::JSContext(JSContext&& other)
ContextMoveCtor(L, o, other) ==
    LET h == L.cobjs[other].m_context
    IN  [L EXCEPT !.cobjs[o] = CtxObject("alive", h, L.cobjs[other].m_runtime),
                  !.cobjs[other].m_context = MovedFrom(h)]

\* JSContext& JSContext::operator=(JSContext&& other): the reference member
\* m_runtime is not rebound
ContextMoveAssign(L, o, other) ==
    IF o # other
    THEN LET own == L.cobjs[o].m_context
             h   == L.cobjs[other].m_context
             L1  == IF own # NullHandle THEN JS_FreeContext(L, own) ELSE L
         IN  [L1 EXCEPT !.cobjs[o].m_context = h,
                        !.cobjs[other].m_context = MovedFrom(h)]
    ELSE L

\* JSEngine::JSEngine() : m_runtime(), m_context(m_runtime)
EngineCtor(L, e) == ContextCtor(RuntimeCtor(L, e), e, e)

\* JSEngine::~JSEngine(), implicit: the members in reverse order of declaration
EngineDtor(L, e) == RuntimeDtor(ContextDtor(L, e), e)

\* JSEngine::JSEngine(JSEngine&&), implicit: the members in order of declaration
EngineMoveCtor(L, e, other) == ContextMoveCtor(RuntimeMoveCtor(L, e, other), e, other)

\* JSEngine& JSEngine::operator=(JSEngine&&), implicit: the members in order of
\* declaration, m_runtime first
EngineMoveAssign(L, e, other) == ContextMoveAssign(RuntimeMoveAssign(L, e, other), e, other)

\* the lifecycle state of an engine that was constructed and nothing else
LifeInit == EngineCtor(LifeEmpty, "e1")

-----------------------------------------------------------------------------
(* The host's view of an operation. *)

\* How a host operation ended:
\*   "return"      it returned (s: the string, or n: the number or boolean),
\*   "JSException" it threw QuickJS::JSException(s),
\*   "foreign"     another C++ exception left it,
\*   "crash"       the process died inside it.
Out(kind, s, n) == [kind |-> kind, s |-> s, n |-> n]

\* a value the host passes to setGlobal: a std::string, a string literal
\* (const char*), an int, a double (tenths) or a bool
HostVal(ty, s, n) == [ty |-> ty, s |-> s, n |-> n]

NoHostVal == HostVal("none", <<>>, 0)

\* The record of the last operation: op and its inputs (name, code, args, hv),
\* what the interpreter reported (st, v), the host outcome (out), the
\* invocations made (calls) and the interpreter handles obtained during the
\* operation and not released when it ended (held).
Last(op, name, code, args, hv, st, v, out, calls) ==
    [op |-> op, name |-> name, code |-> code, args |-> args, hv |-> hv,
     st |-> st, v |-> v, out |-> out, calls |-> calls, held |-> 0]

GlobalsInit == [n \in GlobalNames |-> Absent]

\* a JSEngine was constructed: its context is the one the operations work on
Init ==
    /\ globals = GlobalsInit
    /\ heap = <<>>
    /\ opaque = 0
    /\ pending = Uninit
    /\ crashed = FALSE
    /\ last = Last("init", <<>>, <<>>, <<>>, NoHostVal, "none", Undefined, Out("void", <<>>, 0), <<>>)
    /\ rts = LifeInit.rts
    /\ ctxs = LifeInit.ctxs
    /\ robjs = LifeInit.robjs
    /\ cobjs = LifeInit.cobjs

\* JS_GetPropertyStr(ctx, global, name): an absent property reads as undefined
JS_GetPropertyStr(G, cname) ==
    IF cname \in DOMAIN G /\ G[cname] # Absent THEN G[cname] ELSE Undefined

\* JS_SetPropertyStr(ctx, global, name, val)
JS_SetPropertyStr(G, cname, val) ==
    IF cname \in DOMAIN G THEN [G EXCEPT ![cname] = val] ELSE G

-----------------------------------------------------------------------------
(* eval and its typed variants. *)

UnknownError == <<"Unknown error">>

\* eval, after JS_Eval returned r: the exception branch (JS_GetException empties
\* the pending exception) or the string conversion of the completion value.
EvalOutcome(r) ==
    CASE r.st = "exception" ->
           LET exception == r.pend
               str       == JS_ToCString(exception)
           IN  [out  |-> Out("JSException", OrDefault(str, UnknownError), 0),
                v    |-> exception,
                pend |-> PendingAfterConv(exception, Uninit)]
      [] r.st = "value" ->
           LET str == JS_ToCString(r.v)
           IN  [out  |-> Out("return", OrDefault(str, <<>>), 0),
                v    |-> r.v,
                pend |-> PendingAfterConv(r.v, r.pend)]
      [] OTHER -> [out |-> Out(r.st, <<>>, 0), v |-> Undefined, pend |-> r.pend]

\* The handles the operation itself holds when a C++ exception leaves the
\* interpreter call it made: callFunction has the global object, the function
\* and the argument strings; eval and its variants have none yet.
HeldAcross(op, args, r) ==
    IF op = "callFunction" /\ r.st = "foreign" THEN 2 + Len(args) ELSE 0

\* the step of a host operation that ran the interpreter and ended as fin; the
\* registrations closures made while they ran have allocated and set the slot
Finish(op, name, code, args, r, fin) ==
    /\ globals' = r.G
    /\ pending' = fin.pend
    /\ crashed' = (r.st = "crash")
    /\ last' = [Last(op, name, code, args, NoHostVal, r.st, fin.v, fin.out, r.calls)
                EXCEPT !.held = r.held + HeldAcross(op, args, r)]
    /\ heap' = heap \o r.regs
    /\ opaque' = IF r.regs = <<>> THEN opaque ELSE Len(heap) + Len(r.regs)
    /\ UNCHANGED lifeVars

\* std::string eval(code, filename)
Eval(code) ==
    /\ ~crashed
    /\ \E r \in JS_Eval(code, globals, heap, opaque, pending) :
          Finish("eval", <<>>, code, <<>>, r, EvalOutcome(r))

\* the exception branch shared in shape by eval's typed variants (each has its
\* own copy of it in the source)
ThrowOutcome(r) ==
    LET exception == r.pend
        str       == JS_ToCString(exception)
    IN  [out  |-> Out("JSException", OrDefault(str, UnknownError), 0),
         v    |-> exception,
         pend |-> PendingAfterConv(exception, Uninit)]

NaN == <<"NaN">>

\* JS_ToInt32 into `int result = 0`: the interpreter's ToInt32 (NaN gives 0); on
\* a value that cannot be converted it fails and stores 0
JS_ToInt32(v) ==
    CASE v.t = "int"     -> v.n
      [] v.t = "float64" -> v.n \div 10
      [] v.t = "bool"    -> v.n
      [] OTHER           -> 0

\* JS_ToFloat64 into `double result = 0.0`, in tenths; NaN for what is no
\* number, and NaN is also what it stores when the conversion fails
JS_ToFloat64(v) ==
    CASE v.t = "int"     -> Out("return", <<>>, v.n * 10)
      [] v.t = "float64" -> Out("return", <<>>, v.n)
      [] v.t = "bool"    -> Out("return", <<>>, v.n * 10)
      [] OTHER           -> Out("return", NaN, 0)

\* JS_ToBool
JS_ToBool(v) ==
    CASE v.t \in {"int", "float64", "bool"} -> v.n # 0
      [] v.t = "string"                     -> v.s # <<>>
      [] v.t = "undefined"                  -> FALSE
      [] OTHER                              -> TRUE

\* evalAsInt treating a failed JS_ToInt32 as an error of the operation
EvalAsIntOutcome_Checked(r) ==
    CASE r.st = "exception" -> ThrowOutcome(r)
      [] r.st = "value" ->
           IF HasStrForm(r.v)
           THEN [out  |-> Out("return", <<>>, JS_ToInt32(r.v)),
                 v    |-> r.v,
                 pend |-> r.pend]
           ELSE [out  |-> Out("JSException", StrForm(ConvError), 0),
                 v    |-> r.v,
                 pend |-> Uninit]
      [] OTHER -> [out |-> Out(r.st, <<>>, 0), v |-> Undefined, pend |-> r.pend]

EvalAsIntOutcome(r) ==
    CASE r.st = "exception" -> ThrowOutcome(r)
      [] r.st = "value" ->
           [out  |-> Out("return", <<>>, JS_ToInt32(r.v)),
            v    |-> r.v,
            pend |-> PendingAfterConv(r.v, r.pend)]
      [] OTHER -> [out |-> Out(r.st, <<>>, 0), v |-> Undefined, pend |-> r.pend]

EvalAsDoubleOutcome(r) ==
    CASE r.st = "exception" -> ThrowOutcome(r)
      [] r.st = "value" ->
           [out  |-> JS_ToFloat64(r.v),
            v    |-> r.v,
            pend |-> PendingAfterConv(r.v, r.pend)]
      [] OTHER -> [out |-> Out(r.st, <<>>, 0), v |-> Undefined, pend |-> r.pend]

EvalAsBoolOutcome(r) ==
    CASE r.st = "exception" -> ThrowOutcome(r)
      [] r.st = "value" ->
           [out  |-> Out("return", <<>>, IF JS_ToBool(r.v) THEN 1 ELSE 0),
            v    |-> r.v,
            pend |-> r.pend]
      [] OTHER -> [out |-> Out(r.st, <<>>, 0), v |-> Undefined, pend |-> r.pend]

\* int evalAsInt(code, filename)
EvalAsInt(code) ==
    /\ ~crashed
    /\ \E r \in JS_Eval(code, globals, heap, opaque, pending) :
          Finish("evalAsInt", <<>>, code, <<>>, r, EvalAsIntOutcome(r))

\* double evalAsDouble(code, filename)
EvalAsDouble(code) ==
    /\ ~crashed
    /\ \E r \in JS_Eval(code, globals, heap, opaque, pending) :
          Finish("evalAsDouble", <<>>, code, <<>>, r, EvalAsDoubleOutcome(r))

\* bool evalAsBool(code, filename)
EvalAsBool(code) ==
    /\ ~crashed
    /\ \E r \in JS_Eval(code, globals, heap, opaque, pending) :
          Finish("evalAsBool", <<>>, code, <<>>, r, EvalAsBoolOutcome(r))

-----------------------------------------------------------------------------
(* setGlobal and getGlobalAsString. *)

\* Overload resolution of setGlobal(name, value) over (const std::string&), (int),
\* (double), (bool): a string literal is a const char*, whose conversion to bool
\* is a standard conversion and wins over the user-defined one to std::string.
Overload(hv) == IF hv.ty = "literal" THEN "bool" ELSE hv.ty

\* the script value the chosen overload creates
NewValue(hv) ==
    CASE Overload(hv) = "string" -> JSString(CStr(hv.s))
      [] Overload(hv) = "int"    -> JSInt(hv.n)
      [] Overload(hv) = "double" -> JSFloat(hv.n)
      [] OTHER -> JSBool(IF hv.ty = "literal" THEN TRUE ELSE hv.n # 0)

\* void setGlobal(name, value)
SetGlobal(name, hv) ==
    /\ ~crashed
    /\ globals' = JS_SetPropertyStr(globals, CStr(name), NewValue(hv))
    /\ last' = Last("setGlobal", name, <<>>, <<>>, hv, "none", Undefined, Out("void", <<>>, 0), <<>>)
    /\ UNCHANGED <<heap, opaque, pending, crashed, lifeVars>>

\* std::string getGlobalAsString(name)
GetGlobalAsString(name) ==
    /\ ~crashed
    /\ LET val == JS_GetPropertyStr(globals, CStr(name))
           str == JS_ToCString(val)
       IN  /\ pending' = PendingAfterConv(val, pending)
           /\ last' = Last("getGlobalAsString", name, <<>>, <<>>, NoHostVal, "none", val,
                           Out("return", OrDefault(str, <<>>), 0), <<>>)
    /\ UNCHANGED <<globals, heap, opaque, crashed, lifeVars>>

-----------------------------------------------------------------------------
(* callFunction. *)

NotAFunctionMsg(funcName) == <<"Not a function: ">> \o funcName

RECURSIVE NewStrings(_)
\* `js_args.push_back(JS_NewString(m_context, arg.c_str()))` for each arg
NewStrings(args) ==
    IF args = <<>> THEN <<>>
    ELSE <<JSString(CStr(Head(args)))>> \o NewStrings(Tail(args))

\* callFunction, after JS_Call returned r: the exception branch or the string
\* conversion of the result
CallOutcome(r) ==
    CASE r.st = "exception" ->
           LET exception == r.pend
               str       == JS_ToCString(exception)
           IN  [out  |-> Out("JSException", OrDefault(str, UnknownError), 0),
                v    |-> exception,
                pend |-> PendingAfterConv(exception, Uninit)]
      [] r.st = "value" ->
           LET str == JS_ToCString(r.v)
           IN  [out  |-> Out("return", OrDefault(str, <<>>), 0),
                v    |-> r.v,
                pend |-> PendingAfterConv(r.v, r.pend)]
      [] OTHER -> [out |-> Out(r.st, <<>>, 0), v |-> Undefined, pend |-> r.pend]

\* callFunction without its `if (!JS_IsFunction(...))` check
Callable_Unchecked(func) == TRUE

\* whether callFunction goes on to JS_Call
Callable(func) == JS_IsFunction(func)

\* std::string callFunction(funcName, args)
CallFunction(funcName, args) ==
    /\ ~crashed
    /\ LET func == JS_GetPropertyStr(globals, CStr(funcName))
       IN  IF ~Callable(func)
           THEN /\ last' = Last("callFunction", funcName, <<>>, args, NoHostVal, "none", func,
                                Out("JSException", NotAFunctionMsg(funcName), 0), <<>>)
                /\ UNCHANGED <<globals, heap, opaque, pending, crashed, lifeVars>>
           ELSE \E r \in JS_Call(func, NewStrings(args), globals, heap, opaque, pending) :
                   Finish("callFunction", funcName, <<>>, args, r, CallOutcome(r))

-----------------------------------------------------------------------------
(* evalFile. *)

NoFile == <<"no such file">>

\* the file system: the contents of the file at a path, or NoFile
Files(path) ==
    CASE path = <<"lit.js">>   -> <<"'a'">>
      [] path = <<"call.js">>  -> <<"f", "('a')">>
      [] path = <<"def.js">>   -> <<"function ", "f", "{return x}">>
      [] path = <<"throw.js">> -> <<"throw ", "'a'">>
      [] path = <<"nul.js">>   -> <<"'a'", NUL, "1+2">>
      [] path = <<"empty.js">> -> <<>>
      [] OTHER                 -> NoFile

\* fopen(filepath.c_str(), "rb") succeeded
CanOpen(filepath) == Files(CStr(filepath)) # NoFile

\* evalFile building the source text without the byte count,
\* `std::string code(buffer.data())`
ReadFile_CString(filepath) == CStr(Files(CStr(filepath)))

\* fseek/ftell/fread and `std::string code(buffer.data(), read)`: all the bytes
ReadFile(filepath) == Files(CStr(filepath))

FileOpenMsg(filepath) == <<"Failed to open file: ">> \o filepath

\* std::string evalFile(filepath)
EvalFile(filepath) ==
    /\ ~crashed
    /\ IF ~CanOpen(filepath)
       THEN /\ last' = Last("evalFile", filepath, <<>>, <<>>, NoHostVal, "none", Undefined,
                            Out("JSException", FileOpenMsg(filepath), 0), <<>>)
            /\ UNCHANGED <<globals, heap, opaque, pending, crashed, lifeVars>>
       ELSE LET code == ReadFile(filepath)
            IN  \E r \in JS_Eval(code, globals, heap, opaque, pending) :
                   Finish("evalFile", filepath, code, <<>>, r, EvalOutcome(r))

-----------------------------------------------------------------------------
(* The function bridge: registerFunction, registerSimpleFunction, setConsoleLog. *)

\* void registerFunction(name, func): allocates the closure, binds the wrapper
\* under name and stores the closure in the context's opaque slot
RegisterFunction(name, beh, max) ==
    /\ ~crashed
    /\ Len(heap) < max
    /\ LET func_ptr == Len(heap) + 1
       IN  /\ heap' = Append(heap, Alloc("fn", beh))
           /\ globals' = JS_SetPropertyStr(globals, CStr(name), CFun("fn", func_ptr))
           /\ opaque' = func_ptr
    /\ last' = Last("registerFunction", name, <<>>, <<>>, NoHostVal, "none", Undefined,
                    Out("void", <<>>, 0), <<>>)
    /\ UNCHANGED <<pending, crashed, lifeVars>>

\* void registerSimpleFunction(name, func): allocates the FuncWrapper and binds
\* the wrapper under name; the opaque slot is not written
RegisterSimpleFunction(name, beh, max) ==
    /\ ~crashed
    /\ Len(heap) < max
    /\ LET wrapper_data == Len(heap) + 1
       IN  /\ heap' = Append(heap, Alloc("simple", beh))
           /\ globals' = JS_SetPropertyStr(globals, CStr(name), CFun("simple", wrapper_data))
    /\ last' = Last("registerSimpleFunction", name, <<>>, <<>>, NoHostVal, "none", Undefined,
                    Out("void", <<>>, 0), <<>>)
    /\ UNCHANGED <<opaque, pending, crashed, lifeVars>>

ConsoleSnippet == <<"var console = { log: function() {} };">>

\* void setConsoleLog(callback): allocates the CallbackWrapper, evaluates the
\* console snippet, sets console.log to the wrapper and stores the callback in
\* the opaque slot
SetConsoleLog(beh, max) ==
    /\ ~crashed
    /\ Len(heap) < max
    /\ LET wrapper_data == Len(heap) + 1
           H2 == Append(heap, Alloc("log", beh))
       IN  \E r \in JS_Eval(ConsoleSnippet, globals, H2, opaque, pending) :
              LET fin == EvalOutcome(r)
              IN  /\ heap' = H2
                  /\ globals' = JS_SetPropertyStr(r.G, ConsoleName,
                                                  ConsoleObj(CFun("log", wrapper_data)))
                  /\ opaque' = wrapper_data
                  /\ pending' = fin.pend
    /\ last' = Last("setConsoleLog", <<>>, <<>>, <<>>, NoHostVal, "none", Undefined,
                    Out("void", <<>>, 0), <<>>)
    /\ UNCHANGED <<crashed, lifeVars>>

-----------------------------------------------------------------------------
(* Closures that call back into the context (re-entrancy). *)

\* the global a nested call reads, writes or registers, and the program a
\* nested eval runs
NestedName == <<"g">>

NestedCode == <<"1+2">>

\* The wrapper's `try { result = closure(args); return JS_NewString(...); }`
\* for the closure of allocation h that makes the nested call b and then
\* returns its own string.  A JSException thrown by the nested call is a
\* std::exception and is caught by the wrapper.
NestedCall(h, b, args, G, H, opq, pend) ==
    LET inv == <<Invocation(h, "fn", "none", args, "none", FALSE)>>
        ret == JSString(CStr(RetStr(h)))
    IN  CASE b = "get" ->
               LET val == JS_GetPropertyStr(G, CStr(NestedName))
               IN  {Res("value", ret, G, PendingAfterConv(val, pend), inv)}
          [] b = "set" ->
               {Res("value", ret,
                    JS_SetPropertyStr(G, CStr(NestedName), NewValue(HostVal("int", <<>>, 5))),
                    pend, inv)}
          [] b = "eval" ->
               {LET fin == EvalOutcome(r)
                IN  CASE fin.out.kind = "return" ->
                           [r EXCEPT !.st = "value", !.v = ret, !.pend = fin.pend,
                                     !.calls = inv \o r.calls]
                      [] fin.out.kind = "JSException" ->
                           [r EXCEPT !.st = "exception", !.v = JSException,
                                     !.pend = InternalError(fin.out.s),
                                     !.calls = inv \o r.calls]
                      [] OTHER -> [r EXCEPT !.calls = inv \o r.calls] :
                r \in JS_Eval(NestedCode, G, H, opq, pend)}
          [] OTHER ->
               {[Res("value", ret,
                     JS_SetPropertyStr(G, CStr(NestedName), CFun("fn", Len(H) + 1)),
                     pend, inv)
                 EXCEPT !.regs = <<Alloc("fn", "ret")>>]}

-----------------------------------------------------------------------------
(* Lifecycle operations of the host's objects. *)

\* the lifecycle state now
Life == LifeState(rts, ctxs, robjs, cobjs, FALSE, FALSE)

\* what the interpreter was handed in a lifecycle step that led to L
HandleUse(L) == IF L.nul THEN "nullhandle" ELSE IF L.ub THEN "ub" ELSE "none"

\* The step of the lifecycle operation op that leads to L: passing a null
\* handle kills the process, other undefined behaviour may.
LifeStep(op, L) ==
    /\ rts' = L.rts
    /\ ctxs' = L.ctxs
    /\ robjs' = L.robjs
    /\ cobjs' = L.cobjs
    /\ \E dies \in (IF L.nul THEN {TRUE} ELSE IF L.ub THEN {TRUE, FALSE} ELSE {FALSE}) :
          /\ crashed' = dies
          /\ last' = Last(op, <<>>, <<>>, <<>>, NoHostVal, HandleUse(L), Undefined,
                          Out(IF dies THEN "crash" ELSE "void", <<>>, 0), <<>>)
    /\ UNCHANGED <<globals, heap, opaque, pending>>

\* JSRuntime o;
NewRuntime(o) ==
    /\ ~crashed
    /\ robjs[o].st = "unborn"
    /\ LifeStep("JSRuntime", RuntimeCtor(Life, o))

\* o goes out of scope or is deleted
DestroyRuntime(o) ==
    /\ ~crashed
    /\ robjs[o].st = "alive"
    /\ LifeStep("~JSRuntime", RuntimeDtor(Life, o))

\* JSRuntime o(std::move(other));
MoveRuntime(o, other) ==
    /\ ~crashed
    /\ robjs[o].st = "unborn"
    /\ robjs[other].st = "alive"
    /\ LifeStep("JSRuntime(JSRuntime&&)", RuntimeMoveCtor(Life, o, other))

\* o = std::move(other);
AssignRuntime(o, other) ==
    /\ ~crashed
    /\ robjs[o].st = "alive"
    /\ robjs[other].st = "alive"
    /\ LifeStep("JSRuntime::operator=", RuntimeMoveAssign(Life, o, other))

\* runtime.setMemoryLimit(limit): m_runtime goes to the interpreter unchecked
SetMemoryLimit(o, limit) ==
    /\ ~crashed
    /\ robjs[o].st = "alive"
    /\ LET h == robjs[o].m_runtime
       IN  IF h = NullHandle
           THEN LifeStep("setMemoryLimit", [Life EXCEPT !.nul = TRUE])
           ELSE LifeStep("setMemoryLimit",
                         [Life EXCEPT !.rts[h].limit = limit, !.ub = rts[h].frees > 0])

\* JSContext o(runtime);
NewContext(o, runtime) ==
    /\ ~crashed
    /\ cobjs[o].st = "unborn"
    /\ robjs[runtime].st = "alive"
    /\ LifeStep("JSContext", ContextCtor(Life, o, runtime))

\* o goes out of scope or is deleted
DestroyContext(o) ==
    /\ ~crashed
    /\ cobjs[o].st = "alive"
    /\ LifeStep("~JSContext", ContextDtor(Life, o))

\* JSContext o(std::move(other));
MoveContext(o, other) ==
    /\ ~crashed
    /\ cobjs[o].st = "unborn"
    /\ cobjs[other].st = "alive"
    /\ LifeStep("JSContext(JSContext&&)", ContextMoveCtor(Life, o, other))

\* o = std::move(other);
AssignContext(o, other) ==
    /\ ~crashed
    /\ cobjs[o].st = "alive"
    /\ cobjs[other].st = "alive"
    /\ LifeStep("JSContext::operator=", ContextMoveAssign(Life, o, other))

\* JSEngine e;
NewEngine(e) ==
    /\ ~crashed
    /\ robjs[e].st = "unborn"
    /\ LifeStep("JSEngine", EngineCtor(Life, e))

\* e goes out of scope or is deleted
DestroyEngine(e) ==
    /\ ~crashed
    /\ robjs[e].st = "alive"
    /\ LifeStep("~JSEngine", EngineDtor(Life, e))

\* JSEngine e(std::move(other));
MoveEngine(e, other) ==
    /\ ~crashed
    /\ robjs[e].st = "unborn"
    /\ robjs[other].st = "alive"
    /\ LifeStep("JSEngine(JSEngine&&)", EngineMoveCtor(Life, e, other))

\* e = std::move(other);
AssignEngine(e, other) ==
    /\ ~crashed
    /\ robjs[e].st = "alive"
    /\ robjs[other].st = "alive"
    /\ LifeStep("JSEngine::operator=", EngineMoveAssign(Life, e, other))

\* The context whose contents (globals, opaque, pending, and the closures in
\* heap) the model follows: the one created first.
IsMain(h) == h = 1

\* an operation of a JSContext object handed the interpreter a null or a freed
\* m_context and the process died
Misuse(op, use) ==
    /\ crashed' = TRUE
    /\ last' = Last(op, <<>>, <<>>, <<>>, NoHostVal, use, Undefined, Out("crash", <<>>, 0), <<>>)
    /\ UNCHANGED <<globals, heap, opaque, pending, lifeVars>>

\* o.registerFunction(name, func): no check of m_context; on a freed context
\* the call either dies or runs on the freed memory
RegisterFunctionOn(o, name, beh, max) ==
    /\ ~crashed
    /\ cobjs[o].st = "alive"
    /\ LET h == cobjs[o].m_context
       IN  IF h = NullHandle THEN Misuse("registerFunction", "nullhandle")
           ELSE /\ IsMain(h)
                /\ \/ RegisterFunction(name, beh, max)
                   \/ ~CtxUsable(Life, h) /\ Misuse("registerFunction", "freedhandle")

\* o.eval(code): no check of m_context
EvalOn(o, code) ==
    /\ ~crashed
    /\ cobjs[o].st = "alive"
    /\ LET h == cobjs[o].m_context
       IN  IF h = NullHandle THEN Misuse("eval", "nullhandle")
           ELSE /\ IsMain(h)
                /\ \/ Eval(code)
                   \/ ~CtxUsable(Life, h) /\ Misuse("eval", "freedhandle")

-----------------------------------------------------------------------------
(* Inputs. *)

\* how a registered closure behaves (see Alloc)
FnBehs == {"ret", "std", "other"}

SimpleBehs == {"ret"}

LogBehs == {"ret", "std"}

\* programs that call a global or console.log
CallCodes == {<<n[1], a>> : n \in Names, a \in ArgLists}

LogCodes == {<<"console.log", a>> : a \in ArgLists}

TryCodes == {<<"try{", n[1], "()}catch(e){e}">> : n \in Names}

\* programs without calls: literals, identifiers, throws, declarations, a
\* syntax error, a text holding NUL
LitCodes == {<<l>> : l \in Literals} \cup {<<>>}

ThrowCodes == {<<"throw ", l>> : l \in Literals}

DefCodes == {<<"function ", n[1], b>> : n \in Names, b \in FunBodies}

BadCodes == {<<"function {">>, <<"'a'", NUL, "1+2">>}

\* the programs of the evaluation specification
EvalCodes ==
    LitCodes \cup ThrowCodes \cup BadCodes \cup
    {<<"f">>, <<"f", "()">>, <<"f", "('a')">>, <<"console.log", "('a')">>}

\* host strings passed as values and arguments
HostStrings == {<<"a">>, <<"a", NUL, "b">>, <<>>}

\* values the host passes to setGlobal
HostVals ==
    {HostVal("string", s, 0) : s \in HostStrings} \cup
    {HostVal("literal", <<"a">>, 0), HostVal("int", <<>>, 5), HostVal("double", <<>>, 15),
     HostVal("double", <<>>, 20), HostVal("bool", <<>>, 0), HostVal("bool", <<>>, 1)}

\* memory limits the host sets, in bytes
MemoryLimits == {64}

\* argument vectors of callFunction
ArgVectors == {<<>>, <<<<"a">>>>, <<<<"a", NUL, "b">>, <<"b">>>>}

Paths == {<<"lit.js">>, <<"call.js">>, <<"def.js">>, <<"throw.js">>, <<"nul.js">>,
          <<"empty.js">>, <<"/nonexistent">>}

-----------------------------------------------------------------------------
(* Specifications. *)

\* the function bridge: registrations and the programs that call them
NextBridge ==
    \/ \E n \in Names, b \in FnBehs : RegisterFunction(n, b, MaxRegs)
    \/ \E n \in Names, b \in SimpleBehs : RegisterSimpleFunction(n, b, MaxRegs)
    \/ \E b \in LogBehs : SetConsoleLog(b, MaxRegs)
    \/ \E c \in CallCodes \cup LogCodes \cup TryCodes : Eval(c)
    \/ \E n \in Names, a \in ArgVectors : CallFunction(n, a)

Spec == Init /\ [][NextBridge]_vars

\* evaluation: every kind of program, with registered closures to call
NextEval ==
    \/ \E b \in FnBehs : RegisterFunction(<<"f">>, b, MaxRegs)
    \/ \E b \in LogBehs : SetConsoleLog(b, MaxRegs)
    \/ \E c \in EvalCodes : Eval(c) \/ EvalAsInt(c) \/ EvalAsDouble(c) \/ EvalAsBool(c)

SpecEval == Init /\ [][NextEval]_vars

\* calls from the host and files: script functions, registered closures and
\* bindings that are no functions
NextCall ==
    \/ \E n \in Names, b \in FnBehs : RegisterFunction(n, b, MaxRegs)
    \/ \E b \in LogBehs : SetConsoleLog(b, MaxRegs)
    \/ \E c \in DefCodes : Eval(c)
    \/ \E n \in Names, hv \in {HostVal("string", <<"a">>, 0), HostVal("int", <<>>, 5)} : SetGlobal(n, hv)
    \/ \E n \in Names, a \in ArgVectors : CallFunction(n, a)
    \/ \E p \in Paths : EvalFile(p)

SpecCall == Init /\ [][NextCall]_vars

\* global bindings: written by the host, read by the host and by programs
NextGlobals ==
    \/ \E n \in Names, hv \in HostVals : SetGlobal(n, hv)
    \/ \E n \in Names : GetGlobalAsString(n)
    \/ \E n \in Names : Eval(n) \/ EvalAsInt(n) \/ EvalAsDouble(n) \/ EvalAsBool(n)
    \/ \E c \in DefCodes : Eval(c)

SpecGlobals == Init /\ [][NextGlobals]_vars

\* the lifecycle: construction, moves and destruction of runtimes, contexts
\* and engines, with registrations and calls in the context created first
InitLife ==
    /\ globals = GlobalsInit
    /\ heap = <<>>
    /\ opaque = 0
    /\ pending = Uninit
    /\ crashed = FALSE
    /\ last = Last("init", <<>>, <<>>, <<>>, NoHostVal, "none", Undefined, Out("void", <<>>, 0), <<>>)
    /\ rts = LifeEmpty.rts
    /\ ctxs = LifeEmpty.ctxs
    /\ robjs = LifeEmpty.robjs
    /\ cobjs = LifeEmpty.cobjs

NextLife ==
    \/ \E o \in RtObjs : NewRuntime(o)
    \/ \E o \in RtObjs : DestroyRuntime(o)
    \/ \E o \in RtObjs, other \in RtObjs : MoveRuntime(o, other)
    \/ \E o \in RtObjs, other \in RtObjs : AssignRuntime(o, other)
    \/ \E o \in CtxObjs, r \in RtObjs : NewContext(o, r)
    \/ \E o \in CtxObjs : DestroyContext(o)
    \/ \E o \in CtxObjs, other \in CtxObjs : MoveContext(o, other)
    \/ \E o \in CtxObjs, other \in CtxObjs : AssignContext(o, other)
    \/ \E o \in CtxObjs : RegisterFunctionOn(o, <<"f">>, "ret", MaxRegs)
    \/ \E o \in CtxObjs : EvalOn(o, <<"f", "()">>)

SpecLife == InitLife /\ [][NextLife]_vars

\* the facade: construction, moves and destruction of engines, the memory
\* limit of an engine's runtime (e.runtime().setMemoryLimit), and registrations
\* and calls in the context created first
NextEngine ==
    \/ \E e \in Engines : NewEngine(e)
    \/ \E e \in Engines : DestroyEngine(e)
    \/ \E e \in Engines, other \in Engines : MoveEngine(e, other)
    \/ \E e \in Engines, other \in Engines : AssignEngine(e, other)
    \/ \E e \in Engines, l \in MemoryLimits : SetMemoryLimit(e, l)
    \/ \E e \in Engines : RegisterFunctionOn(e, <<"f">>, "ret", MaxRegs)
    \/ \E e \in Engines : EvalOn(e, <<"f", "()">>)

SpecEngine == InitLife /\ [][NextEngine]_vars

\* re-entrancy: closures registered under f that call back into the context,
\* called by programs and by the host; the heap is kept within max allocations
EvalWithin(code, max) ==
    /\ Eval(code)
    /\ Len(heap') <= max

CallFunctionWithin(funcName, args, max) ==
    /\ CallFunction(funcName, args)
    /\ Len(heap') <= max

NextReenter ==
    \/ \E b \in NestedBehs \cup {"ret"} : RegisterFunction(<<"f">>, b, MaxRegs)
    \/ \E c \in CallCodes : EvalWithin(c, MaxRegs)
    \/ \E n \in Names, a \in ArgVectors : CallFunctionWithin(n, a, MaxRegs)
    \/ \E n \in Names : GetGlobalAsString(n)

SpecReenter == Init /\ [][NextReenter]_vars

-----------------------------------------------------------------------------
(* Claims about the function bridge (specification Spec). *)

\* the last operation evaluated the program `n(...)`
CalledByScript(n) ==
    /\ last.op = "eval"
    /\ Parse(last.code).k = "call"
    /\ Parse(last.code).name = n

\* n is bound to the wrapper a registration of kind k installed
BoundBy(n, k) == globals[n].t = "cfun" /\ globals[n].s = <<k>>

\* the last operation invoked exactly the closure of allocation h, once
InvokedOnly(h) == Len(last.calls) = 1 /\ last.calls[1].h = h

\* C1: a script call of a name registered with registerFunction(N, f) invokes f,
\* the closure registered under N, and the call's result is the string f
\* returned.
C1_CallInvokesRegisteredClosure ==
    \A n \in Names :
        (CalledByScript(n) /\ BoundBy(n, "fn")) =>
            /\ InvokedOnly(globals[n].n)
            /\ heap[globals[n].n].beh = "ret" =>
                  last.out = Out("return", RetStr(globals[n].n), 0)

\* C2: after registerSimpleFunction(N, g), the script call N() invokes g and
\* returns g's result as a string, whatever other registrations were made.
C2_SimpleCallInvokesClosure ==
    \A n \in Names :
        (CalledByScript(n) /\ BoundBy(n, "simple") /\ Parse(last.code).args = <<>>) =>
            /\ InvokedOnly(globals[n].n)
            /\ last.out = Out("return", RetStr(globals[n].n), 0)

\* C3: after setConsoleLog(cb), a script call console.log(x, ...) invokes cb
\* exactly once with the string form of x and returns undefined, also after
\* later registerFunction and registerSimpleFunction calls.
C3_ConsoleLogForwards ==
    (/\ last.op = "eval"
     /\ Parse(last.code).k = "log"
     /\ Len(Parse(last.code).args) > 0
     /\ HasStrForm(Parse(last.code).args[1])
     /\ globals[ConsoleName].t = "object"
     /\ LogOf(globals[ConsoleName]).t = "cfun") =>
        LET h == LogOf(globals[ConsoleName]).n
        IN  /\ InvokedOnly(h)
            /\ last.calls[1].args = <<StrForm(Parse(last.code).args[1])>>
            /\ heap[h].beh = "ret" => (last.st = "value" /\ last.v = Undefined)

\* one step of C4: a registration binds exactly one global, to a callable, and
\* a script call of a registered name invokes the closure of the latest
\* registration under that name
C4_Step ==
    /\ (heap' # heap /\ last'.op \in {"registerFunction", "registerSimpleFunction"}) =>
          /\ JS_IsFunction(globals'[last'.name])
          /\ \A m \in GlobalNames \ {last'.name} : globals'[m] = globals[m]
    /\ \A n \in Names :
          (/\ last'.op = "eval"
           /\ Parse(last'.code).k = "call"
           /\ Parse(last'.code).name = n
           /\ (BoundBy(n, "fn") \/ BoundBy(n, "simple"))) =>
              (Len(last'.calls) = 1 /\ last'.calls[1].h = globals[n].n)

\* C4: each registerFunction/registerSimpleFunction call installs exactly one
\* global callable and the last registration under a name wins: a script call
\* of the name invokes the most recently registered closure, never an earlier
\* one.
C4_LastRegistrationWins == [][C4_Step]_vars

\* C5: a host fault raised by a closure registered with registerFunction or
\* registerSimpleFunction is caught in the trampoline and becomes a script
\* exception carrying the fault's message; no host fault leaves the trampoline
\* into the interpreter.
C5_FaultsBecomeScriptExceptions ==
    \A i \in 1..Len(last.calls) :
        LET c == last.calls[i]
        IN  (c.h # 0 /\ heap[c.h].kind \in {"fn", "simple"} /\ c.fault # "none") =>
                /\ c.caught
                /\ last.st \notin {"foreign", "crash"}
                /\ last.v = InternalError(WhatStr(c.h))

-----------------------------------------------------------------------------
(* Claims about evaluation (specification SpecEval). *)

EvalOps == {"eval", "evalAsInt", "evalAsDouble", "evalAsBool"}

\* the value-returning outcome of op for the completion value v
Converted(op, v) ==
    CASE op = "evalAsInt"    -> Out("return", <<>>, JS_ToInt32(v))
      [] op = "evalAsDouble" -> JS_ToFloat64(v)
      [] op = "evalAsBool"   -> Out("return", <<>>, IF JS_ToBool(v) THEN 1 ELSE 0)
      [] OTHER -> Out("return", IF HasStrForm(v) THEN StrForm(v) ELSE <<>>, 0)

\* C6: evaluate and each typed variant end in exactly one of two ways: the
\* interpreter reported an exception and the operation fails with ScriptError
\* carrying the exception's string form ("Unknown error" when it has none), or
\* it returns the converted completion value and raises nothing.
C6_TwoOutcomes ==
    last.op \in EvalOps =>
        IF last.st = "exception"
        THEN last.out = Out("JSException",
                            IF HasStrForm(last.v) THEN StrForm(last.v) ELSE UnknownError, 0)
        ELSE last.st = "value" /\ last.out = Converted(last.op, last.v)

-----------------------------------------------------------------------------
(* Claims about callFunction and evalFile (specification SpecCall). *)

\* one step of C7
C7_Step ==
    (last'.op = "callFunction" /\ ~JS_IsFunction(globals[last'.name])) =>
        /\ last'.out = Out("JSException", NotAFunctionMsg(last'.name), 0)
        /\ last'.calls = <<>>
        /\ globals' = globals
        /\ heap' = heap
        /\ opaque' = opaque

\* C7: callFunction(name, args) fails with NotCallable(name) whenever global
\* name is unbound or bound to a non-callable value; nothing is invoked and the
\* global bindings and registrations are unchanged.
C7_NotCallable == [][C7_Step]_vars

\* callFunction failed on a name bound to a string, with a closure registered
C7_Witness ==
    /\ last.op = "callFunction"
    /\ globals[last.name].t = "string"
    /\ last.out = Out("JSException", NotAFunctionMsg(last.name), 0)
    /\ heap # <<>>

\* C8: for a callable global, callFunction(name, args) invokes it exactly once
\* with the global object as receiver and with len(args) string arguments, the
\* i-th equal to args[i]; the result is converted and a thrown exception
\* reported exactly as evaluate does.
C8_CallPassesArguments ==
    (last.op = "callFunction" /\ last.st # "none") =>
        /\ Len(last.calls) = 1
        /\ last.calls[1].args = last.args
        /\ last.calls[1].via = "script" => last.calls[1].recv = "global"
        /\ last.st \in {"value", "exception"}
        /\ last.out = EvalOutcome(Res(last.st, last.v, globals, last.v, <<>>)).out

\* one step of C9
C9_Step ==
    last'.op = "evalFile" =>
        IF Files(last'.name) = NoFile
        THEN /\ last'.out = Out("JSException", FileOpenMsg(last'.name), 0)
             /\ last'.calls = <<>>
             /\ UNCHANGED <<globals, heap, opaque, pending, crashed>>
        ELSE \E r \in JS_Eval(Files(last'.name), globals, heap, opaque, pending) :
                /\ last'.out = EvalOutcome(r).out
                /\ last'.calls = r.calls
                /\ globals' = r.G
                /\ pending' = EvalOutcome(r).pend
                /\ crashed' = (r.st = "crash")
                /\ UNCHANGED <<heap, opaque>>

\* C9: evalFile(path) fails with FileOpenError(path), evaluating nothing and
\* changing nothing, when the file cannot be opened; otherwise its outcome and
\* its effect on the context are those of evaluate(contents, path), contents
\* being the whole file.
C9_EvalFileIsEval == [][C9_Step]_vars

\* evalFile ran a file whose program called a registered closure or a script
\* function
C9_Witness ==
    /\ last.op = "evalFile"
    /\ last.name = <<"call.js">>
    /\ last.calls # <<>>
    /\ last.out.kind = "return"

-----------------------------------------------------------------------------
(* Claims about global bindings (specification SpecGlobals). *)

\* the string form of a value the host passed
HostForm(hv) ==
    CASE hv.ty \in {"string", "literal"} -> hv.s
      [] hv.ty = "int"    -> <<ToString(hv.n)>>
      [] hv.ty = "double" -> IF hv.n % 10 = 0 THEN <<ToString(hv.n \div 10)>>
                             ELSE <<ToString(hv.n \div 10), ".", ToString(hv.n % 10)>>
      [] OTHER            -> IF hv.n # 0 THEN <<"true">> ELSE <<"false">>

\* what getGlobalAsString(name) returns in a context with globals G
ReadBack(G, name) ==
    OrDefault(JS_ToCString(JS_GetPropertyStr(G, CStr(name))), <<>>)

\* one step of C10
C10_Step ==
    last'.op = "setGlobal" =>
        /\ last'.out.kind = "void"
        /\ ReadBack(globals', last'.name) = HostForm(last'.hv)
        /\ \A r \in JS_Eval(last'.name, globals', heap', opaque', pending') :
              EvalOutcome(r).out = Out("return", HostForm(last'.hv), 0)
        /\ \A m \in GlobalNames \ {last'.name} : globals'[m] = globals[m]
        /\ JS_SetPropertyStr(globals', CStr(last'.name), NewValue(last'.hv)) = globals'

\* C10: reading a name yields the value of the most recent setGlobal for it,
\* for each of the four scalar types; setGlobal never fails, overwrites
\* silently, leaves every other binding unchanged and is idempotent.
C10_SetGlobalRoundTrip == [][C10_Step]_vars

-----------------------------------------------------------------------------
(* Claims about the lifecycle (specifications SpecLife and SpecEngine). *)

\* the context handle h was created and not freed
LiveCtx(h) == ctxs[h].made /\ ctxs[h].frees = 0

\* C11: in every reachable state an interpreter runtime has been freed only
\* if every context created on it has been freed; an engine frees its context
\* before its runtime.
C11_RuntimeFreedAfterContexts ==
    /\ \A h \in CtxIds : LiveCtx(h) => rts[ctxs[h].rt].frees = 0
    /\ \A r \in RtIds : ~rts[r].early

\* the JSContext object o is live in the lifecycle state L: it holds a context
\* handle that has not been freed
LiveObject(L, o) ==
    /\ L.cobjs[o].st = "alive"
    /\ L.cobjs[o].m_context # NullHandle
    /\ CtxUsable(L, L.cobjs[o].m_context)

\* one step of C12
C12_Step ==
    /\ \A o \in AllCtx :
          (cobjs[o].st # "unborn" /\ ~LiveObject(Life, o)) =>
              ~LiveObject(LifeState(rts', ctxs', robjs', cobjs', FALSE, FALSE), o)
    /\ last'.st \notin {"nullhandle", "freedhandle", "ub"}

\* C12: a Context is live or destroyed, destruction is the only transition and
\* is irreversible (a Context object that gave up or freed its handle never
\* becomes live again), and no operation is executed against a Context or
\* Runtime whose interpreter handle is null or freed.
C12_LiveThenDestroyed == [][C12_Step]_vars

\* C13: every closure allocated by registerFunction, registerSimpleFunction or
\* setConsoleLog stays allocated while its Context is live and is released
\* when the Context is destroyed: once the context is freed, none of its
\* closures remains allocated.  (heap holds the closures allocated for the
\* context created first and not released.)
C13_ClosuresFollowContext ==
    \A h \in CtxIds : (IsMain(h) /\ ctxs[h].made /\ ctxs[h].frees > 0) => heap = <<>>

-----------------------------------------------------------------------------
(* Claims about failures and conversions (specification SpecEval). *)

\* the host operations that run a program or a function
RunOps == EvalOps \cup {"callFunction", "evalFile"}

\* C14: every failure of evaluate, callFunction or evaluateFile is returned to
\* the caller as a ScriptError, NotCallable or FileOpenError and is
\* recoverable: afterwards the context is still usable and no pending
\* exception is left in it.
C14_FailuresRecoverable ==
    (last.op \in RunOps /\ last.out.kind # "return") =>
        /\ last.out.kind = "JSException"
        /\ ~crashed
        /\ pending = Uninit

TypedOps == {"evalAsInt", "evalAsDouble", "evalAsBool"}

\* C15: evaluateAsInt, evaluateAsDouble and evaluateAsBool raise a host error
\* only when the evaluation itself raised an exception; when the evaluation
\* completes with a value, non-numeric included, they return the
\* interpreter's coercion of it and do not fail because of the conversion.
C15_ConversionNeverFails ==
    last.op \in TypedOps =>
        /\ last.out.kind = "JSException" => last.st = "exception"
        /\ last.st = "value" => last.out = Converted(last.op, last.v)

\* evalAsInt returned for a completion value that has no number form
C15_Witness ==
    /\ last.op = "evalAsInt"
    /\ last.st = "value"
    /\ last.v = JSSymbol
    /\ last.out = Out("return", <<>>, 0)

-----------------------------------------------------------------------------
(* Claims about the arguments of registered functions (specification Spec). *)

\* C16: when a script calls a function registered with registerFunction with
\* argc arguments, the closure receives exactly argc strings, the i-th being
\* the string form of argument i; an argument that has no string form neither
\* fails the call nor is dropped.
C16_ArgumentsPreserved ==
    \A n \in Names :
        (CalledByScript(n) /\ BoundBy(n, "fn")) =>
            /\ Len(last.calls) = 1
            /\ Len(last.calls[1].args) = Len(Parse(last.code).args)
            /\ \A i \in 1..Len(Parse(last.code).args) :
                  HasStrForm(Parse(last.code).args[i]) =>
                      last.calls[1].args[i] = StrForm(Parse(last.code).args[i])

-----------------------------------------------------------------------------
(* Claims about re-entrancy (specification SpecReenter). *)

\* C17: a closure running inside a trampoline may call back into the same
\* context (getGlobalAsString, eval, setGlobal, a further registration); the
\* outer call still completes with the outer closure's own result, and every
\* registered name still invokes its own closure afterwards.
C17_NestedCallsKeepClosures ==
    \A n \in Names :
        (CalledByScript(n) /\ BoundBy(n, "fn")) =>
            /\ Len(last.calls) >= 1
            /\ last.calls[1].h = globals[n].n
            /\ last.out = Out("return", RetStr(globals[n].n), 0)

-----------------------------------------------------------------------------
(* Claims about interpreter handles (specification Spec). *)

\* C18: every interpreter value handle obtained inside a host operation
\* (completion value, exception value, global object, property, argument
\* strings, C strings) is released or handed to the interpreter before the
\* operation returns or throws: no operation ends still holding one.
C18_HandlesReleased == last.held = 0

-----------------------------------------------------------------------------
(* Claims about handle ownership (specification SpecLife). *)

\* the objects that hold the runtime handle h / the context handle h
RtOwners(h) == {o \in AllRt : robjs[o].st = "alive" /\ robjs[o].m_runtime = h}

CtxOwners(h) == {o \in AllCtx : cobjs[o].st = "alive" /\ cobjs[o].m_context = h}

\* C19: over any sequence of construction, move construction, move assignment
\* (self-assignment included) and destruction of JSRuntime and JSContext
\* objects, each runtime handle and each context handle is owned by at most
\* one object at a time and is freed exactly once: never twice, and a handle
\* not yet freed always has the owner that will free it.
C19_SingleOwnerFreedOnce ==
    /\ \A h \in RtIds :
          /\ Cardinality(RtOwners(h)) <= 1
          /\ rts[h].frees <= 1
          /\ rts[h].made => (rts[h].frees = 0 <=> RtOwners(h) # {})
    /\ \A h \in CtxIds :
          /\ Cardinality(CtxOwners(h)) <= 1
          /\ ctxs[h].frees <= 1
          /\ ctxs[h].made => (ctxs[h].frees = 0 <=> CtxOwners(h) # {})

\* a runtime handle went through a move construction and a context handle
\* through a move assignment; every object but the moved-from context is
\* destroyed and every handle was freed once
C19_Witness ==
    /\ ~crashed
    /\ robjs["r1"].st = "dead" /\ robjs["r2"].st = "dead"
    /\ rts[1].made /\ rts[1].frees = 1 /\ ~rts[2].made
    /\ cobjs["c1"].st = "dead"
    /\ cobjs["c2"].st = "alive" /\ cobjs["c2"].m_context = NullHandle
    /\ ctxs[1].frees = 1 /\ ctxs[2].made /\ ctxs[2].frees = 1
    /\ \A h \in RtIds : ~rts[h].early

====
